---------------------------- MODULE Spec2Model ----------------------------
(***************************************************************************)
(* mcanvilrenderer: incremental renderer of Minecraft region files.        *)
(*                                                                         *)
(*   update_detector.rs  RegionTimestamps (timestamp table, diffs),        *)
(*                       CLoc / RLoc coordinates                           *)
(*   dimension.rs        Dimension::from_dimdir (the scan that builds      *)
(*                       render_regions and timestamps), save_cache        *)
(*   dim_renderer.rs     DimensionRenderer (regions / chunks caches,       *)
(*                       render_all, render_region, render_chunk,          *)
(*                       get_chunk, get_region)                            *)
(*   main.rs             main (progress channel, receiver loop)            *)
(*                                                                         *)
(* A region location RLoc(x, z) is the tuple <<x, z>>, a chunk location    *)
(* CLoc(x, z) the tuple <<x, z>>.  A RegionTimestamps.rawdata is a sparse  *)
(* byte array: a function from some byte offsets to bytes, every offset    *)
(* outside its domain holding 0.                                           *)
(***************************************************************************)
EXTENDS Integers, Sequences, FiniteSets, TLC

\* Option<T>: None is the empty tuple, Some(v) the one-element tuple
None == <<>>
Some(v) == <<v>>
unwrap(o) == o[1]

\* ------------------------------------------------------------------------
\* Bounds of the model
\* ------------------------------------------------------------------------

\* region files r.0.0.mca .. r.0.MaxRZ.mca exist in the dimension directory
MaxRZ == 1

\* widest thread pool explored (dim_renderer.rs builds its pool with
\* ThreadPoolWidth workers; the caches are Arc/Mutex/RwLock-shared so the
\* same task code is explored on wider pools as well)
MaxWorkers == 2

\* number of program runs (scan + render) in one behaviour
MaxRuns == 2

\* number of chunks with a timestamp, over all the region files
MaxStamped == 2

\* number of snapshots in the cache directory when the first run starts
MaxSnapshots == 1

\* ------------------------------------------------------------------------
\* update_detector.rs
\* ------------------------------------------------------------------------

\* the number of chunk rows, and of chunk columns, of a region (the `32` of
\* CLoc::offset)
SIDE == 32

\* the ends of i32
I32_MAX == 2147483647
I32_MIN == -2147483647 - 1

\* i32 + i32, kept to 32 bits (two's complement): a sum past an end of i32
\* comes back from the other end
i32_add(a, b) ==
    IF b > 0 /\ a > I32_MAX - b THEN (a - I32_MAX - 1) + (b - I32_MAX - 1)
    ELSE IF b < 0 /\ a < I32_MIN - b THEN (a + I32_MAX + 1) + (b + I32_MAX + 1)
    ELSE a + b

\* CLoc_offset gone wrong: a coordinate outside the range is carried into it
CLoc_offset_wrapped(cloc, x, z) ==
    [ok |-> TRUE, loc |-> <<i32_add(cloc[1], x) % 32, i32_add(cloc[2], z) % 32>>]

\* CLoc::offset: Ok(CLoc) inside [0, 32) x [0, 32), InvalidOffsetError outside
CLoc_offset(cloc, x, z) ==
    LET new_x == i32_add(cloc[1], x)
        new_z == i32_add(cloc[2], z)
    IN  IF new_x < 0 \/ new_x >= SIDE THEN [ok |-> FALSE]
        ELSE IF new_z < 0 \/ new_z >= SIDE THEN [ok |-> FALSE]
        ELSE [ok |-> TRUE, loc |-> <<new_x, new_z>>]

\* RLoc::offset
RLoc_offset(rloc, x, z) == <<rloc[1] + x, rloc[2] + z>>

\* one byte of a rawdata array
Byte(rawdata, k) == IF k \in DOMAIN rawdata THEN rawdata[k] ELSE 0

\* u32::from_be_bytes
from_be_bytes(b0, b1, b2, b3) == ((b0 * 256 + b1) * 256 + b2) * 256 + b3

\* RegionTimestamps::to_tsarray: 1024 big-endian u32 read in sequence
to_tsarray(rawdata) ==
    [index \in 0..1023 |->
        from_be_bytes(Byte(rawdata, 4 * index), Byte(rawdata, 4 * index + 1),
                      Byte(rawdata, 4 * index + 2), Byte(rawdata, 4 * index + 3))]

\* diffs_changed gone wrong: a chunk counts as changed only when its
\* timestamp is newer than the snapshot's
diffs_changed_newer(me_ts, other_ts) == me_ts > 0 /\ me_ts > other_ts

\* diffs_changed gone wrong: the snapshot is not looked at
diffs_changed_present(me_ts, other_ts) == me_ts > 0

\* the test of the loop body of RegionTimestamps::diffs
diffs_changed(me_ts, other_ts) == me_ts > 0 /\ me_ts # other_ts

\* diffs_coord gone wrong: x and z the wrong way round
diffs_coord_swapped(index) == <<index \div 32, index % 32>>

\* the coordinate pushed by the loop body of RegionTimestamps::diffs
diffs_coord(index) == <<index % 32, index \div 32>>

\* RegionTimestamps::diffs: the Vec of (x, z), in index order
diffs(me, other) ==
    LET me_ar == to_tsarray(me)
        other_ar == IF other = None THEN [index \in 0..1023 |-> 0]
                    ELSE to_tsarray(unwrap(other))
        hits == SelectSeq([k \in 1..1024 |-> k - 1],
                          LAMBDA index : diffs_changed(me_ar[index], other_ar[index]))
    IN  [k \in 1..Len(hits) |-> diffs_coord(hits[k])]

\* ------------------------------------------------------------------------
\* The files: region containers, snapshots
\* ------------------------------------------------------------------------

\* the four big-endian bytes of a timestamp, as the game writes them into
\* the header of a region file
be_bytes(v) == <<v \div 16777216, (v \div 65536) % 256, (v \div 256) % 256, v % 256>>

\* the rawdata whose table holds ts[index] at every index of DOMAIN ts (and
\* 0 elsewhere): the bytes that are not 0
RawTable(ts) ==
    LET offsets == UNION {{4 * i, 4 * i + 1, 4 * i + 2, 4 * i + 3} : i \in DOMAIN ts}
    IN  [k \in {j \in offsets : be_bytes(ts[j \div 4])[(j % 4) + 1] # 0} |->
            be_bytes(ts[k \div 4])[(k % 4) + 1]]

\* table indices and timestamps the tables of the diff checks are drawn from
DiffIdx == {5, 32, 1023}
DiffVals == {0, 1, 2, 256}
DiffTables == {RawTable(ts) : ts \in [DiffIdx -> DiffVals]}

\* ------------------------------------------------------------------------
\* The dimension directory, the cache directory, the image directory
\* ------------------------------------------------------------------------

\* the locations of the region files r.<x>.<z>.mca of the dimension directory
RegionLocs == {<<0, rz>> : rz \in 0..MaxRZ}

\* the chunk column and the chunk rows whose timestamps the region files vary
ScanCols == {5}
ScanRows == {0, 31}
ScanIdx == {z * 32 + x : x \in ScanCols, z \in ScanRows}

\* timestamp tables of the region files: a chunk has no timestamp or the
\* timestamp 2
RegionTables == {RawTable(ts) : ts \in [ScanIdx -> {0, 2}]}

\* the snapshot of a region when the first run starts: none, or one of an
\* earlier run that saw the timestamp 2 in row 0 and the timestamp 1 elsewhere
Snapshots ==
    {None, Some(RawTable([i \in ScanIdx |-> IF i \div 32 = 0 THEN 2 ELSE 1]))}

\* the chunks of the column, and those of them a table gives a timestamp
ColumnChunks == {<<x, z>> : x \in ScanCols, z \in 0..31}
Timestamped(rawdata) == {c \in ColumnChunks : to_tsarray(rawdata)[c[2] * 32 + c[1]] > 0}

\* the number of timestamped chunks of the tables of a directory
Stamped(tables) ==
    LET RECURSIVE count(_)
        count(rlocs) == IF rlocs = {} THEN 0
                        ELSE LET r == CHOOSE q \in rlocs : TRUE
                             IN  Cardinality(Timestamped(tables[r])) + count(rlocs \ {r})
    IN  count(DOMAIN tables)

\* f with key k set to v (HashMap::insert)
Put(f, k, v) == [j \in DOMAIN f \cup {k} |-> IF j = k THEN v ELSE f[j]]

\* the empty HashMap
EmptyMap == [j \in {} |-> {}]

\* ------------------------------------------------------------------------
\* main.rs
\* ------------------------------------------------------------------------

\* sync_channel(10): the capacity of the progress channel
SyncChannelBound == 10

\* enum CacheMode
CacheModes == {"Default", "Refresh", "ReadOnly", "NoCache"}

\* ------------------------------------------------------------------------
\* dim_renderer.rs: constants
\* ------------------------------------------------------------------------

\* ThreadPool::new(1)
ThreadPoolWidth == 1

\* the two row numbers of the retain closure of render_all
EvictRow == 15

\* ------------------------------------------------------------------------
\* dimension.rs: constants
\* ------------------------------------------------------------------------

\* `if cloc.1 <= 15` of from_dimdir
SouthLocalRow == 15

\* `cloc.offset(0, -16)` of from_dimdir
SouthWrap == 16

VARIABLES
    me,             \* diffs: self.rawdata
    other,          \* diffs: the snapshot's rawdata, or None
    diff_out,       \* diffs: the returned Vec, or None before the call
    off_in,         \* CLoc::offset: [cloc, x, z] of a call, or None
    off_out,        \* CLoc::offset: the returned Result, or None before the call
    region_files,   \* dimension directory: RLoc -> [ts: rawdata, absent: chunks without data]
    cache_files,    \* cache directory: RLoc -> rawdata of r.x.z.cache
    image_files,    \* image directory: RLoc -> canvas of r.x.z.png
    cache_mode,     \* Cli.cache_mode
    width,          \* number of workers of the thread pool
    run,            \* number of the current program run
    main_pc,        \* position of main / render_all
    to_scan,        \* from_dimdir: the entries of region_locs not yet visited
    timestamps,     \* Dimension.timestamps
    render_regions, \* Dimension.render_regions
    regions,        \* DimensionRendererInner.regions (keys: the opened regions)
    chunks,         \* DimensionRendererInner.chunks: (RLoc, CLoc) -> Arc<JavaChunk>
    regions_remind, \* render_all: regions_remind
    jobs,           \* the closures queued in the pool, by their rloc
    wk,             \* the workers of the pool: position and locals of the closure
    chan,           \* the progress channel: events sent and not yet received
    decodes,        \* history: (RLoc, CLoc) -> number of JavaChunk::from_bytes calls
    observed,       \* history: RLoc -> <<exist_north, exist_south>> of its closure
    bounds,         \* main: bounds, Option<(RLoc, RLoc)>
    faults,         \* the operations that fail in this directory tree
    poisoned,       \* the locks a panicking holder has poisoned
    sent,           \* history: the events sent in this run (None: not recorded)
    completed,      \* history: the regions whose closure has returned
    panics,         \* history: the regions whose closure has panicked
    held            \* per worker, the locks it holds, in the order taken

dvars == <<me, other, diff_out, off_in, off_out>>
fvars == <<region_files, cache_files, image_files>>
svars == <<to_scan, timestamps, render_regions>>
rvars == <<regions, chunks, regions_remind, jobs, wk, chan, decodes, observed>>
evars == <<bounds, faults>>
lvars == <<held>>
hvars == <<poisoned, sent, completed, panics>>
vars == <<dvars, fvars, cache_mode, width, run, main_pc, svars, rvars, evars, hvars, lvars>>

Workers == 1..MaxWorkers

IdleWorker ==
    [pc |-> "idle", rloc |-> None, todo |-> {}, cloc |-> None, chunk |-> None,
     north |-> None, exist_north |-> FALSE, exist_south |-> FALSE, buf |-> EmptyMap]

\* cache_ro gone wrong: no mode is read-only
cache_ro_never == FALSE

\* main: nocache and cache_ro
nocache == cache_mode = "NoCache" \/ cache_mode = "Refresh"
cache_ro == cache_mode = "ReadOnly"

\* ------------------------------------------------------------------------
\* dimension.rs: Dimension::from_dimdir
\* ------------------------------------------------------------------------

\* share_borrow_mut_with(&render_regions, key, Default::default): the entry
\* of key, created empty when there is none
share_borrow_mut_with(hash_map, key) ==
    IF key \in DOMAIN hash_map THEN hash_map ELSE Put(hash_map, key, {})

\* the body of `for cloc_tuple in diff` for one chunk of the diff of rloc
mark_required(rr, rloc, cloc) ==
    LET own == Put(rr, rloc, rr[rloc] \cup {cloc})
    IN  IF cloc[2] <= SouthLocalRow
        THEN \* in the region
             LET south == CLoc_offset(cloc, 0, 1)
             IN  Put(own, rloc, own[rloc] \cup {south.loc})
        ELSE \* in the south region
             LET south == CLoc_offset(cloc, 0, 0 - SouthWrap)
                 south_rloc == RLoc_offset(rloc, 0, 1)
                 with_south == share_borrow_mut_with(own, south_rloc)
             IN  Put(with_south, south_rloc, with_south[south_rloc] \cup {south.loc})

\* the loop `for cloc_tuple in diff`, from the k-th chunk of the diff on
RECURSIVE mark_all(_, _, _, _)
mark_all(rr, rloc, diff, k) ==
    IF k > Len(diff) THEN rr
    ELSE mark_all(mark_required(rr, rloc, diff[k]), rloc, diff, k + 1)

\* File::open(&cache_path) and from_cachedata: the snapshot of rloc, if any
read_cache(rloc) ==
    IF rloc \in DOMAIN cache_files THEN Some(cache_files[rloc]) ELSE None

\* from_dimdir(.., bounds, ..): is rloc inside the inclusive box, when there
\* is one
in_bounds(rloc) ==
    \/ bounds = None
    \/ LET lo == unwrap(bounds)[1]
           hi == unwrap(bounds)[2]
       IN  /\ lo[1] <= rloc[1] /\ rloc[1] <= hi[1]
           /\ lo[2] <= rloc[2] /\ rloc[2] <= hi[2]

\* from_dimdir(.., nocache, ..): the snapshot the diff is taken against:
\* none when the cache is not to be read
scan_cache(rloc) == IF nocache THEN None ELSE read_cache(rloc)

\* diff_is_empty gone wrong: no region counts as unchanged
diff_never_empty(diff) == FALSE

\* `if diff.len() == 0 { continue; }`
diff_is_empty(diff) == Len(diff) = 0

\* one iteration of `for (rloc, path) in region_locs`; a region file outside
\* the bounds is no entry of region_locs
ScanRegion(rloc) ==
    /\ main_pc = "scan"
    /\ rloc \in to_scan
    /\ to_scan' = to_scan \ {rloc}
    /\ LET region == region_files[rloc].ts
           diff == diffs(region, scan_cache(rloc))
       IN  IF ~in_bounds(rloc) \/ diff_is_empty(diff)
           THEN UNCHANGED <<timestamps, render_regions>>
           ELSE /\ timestamps' = Put(timestamps, rloc, region)
                /\ render_regions' =
                       mark_all(share_borrow_mut_with(render_regions, rloc), rloc, diff, 1)
    /\ UNCHANGED <<dvars, evars, lvars, fvars, cache_mode, width, run, main_pc, rvars, hvars>>

\* ------------------------------------------------------------------------
\* dim_renderer.rs: the caches
\* ------------------------------------------------------------------------

\* get_region: the cached region, or the region file opened and cached;
\* None when the dimension directory has no such file.  It panics, holding
\* the lock of regions, when the file cannot be opened.
\* [ret: is there a region, regions: the cache afterwards, panic]
get_region(regs, rloc) ==
    IF "regions" \in poisoned THEN [ret |-> FALSE, regions |-> regs, panic |-> TRUE]
    ELSE IF rloc \in regs THEN [ret |-> TRUE, regions |-> regs, panic |-> FALSE]
    ELSE IF rloc \notin DOMAIN region_files
         THEN [ret |-> FALSE, regions |-> regs, panic |-> FALSE]
    ELSE IF <<"open", rloc>> \in faults
         THEN [ret |-> FALSE, regions |-> regs, panic |-> TRUE]
    ELSE [ret |-> TRUE, regions |-> regs \cup {rloc}, panic |-> FALSE]

\* get_chunk under the read lock: the cached chunk of key, if any
get_chunk_read(key) ==
    IF key \in DOMAIN chunks THEN Some(chunks[key]) ELSE None

\* get_chunk_recheck gone wrong: no second lookup under the write lock
get_chunk_no_recheck(chs, key) == FALSE

\* does the write-locked part of get_chunk return the chunk found by its
\* second lookup (`if let Some(chunk) = chunks_wl.get(&key)`)
get_chunk_recheck(chs, key) == key \in DOMAIN chs

\* get_chunk under the write lock: the second lookup, then get_region,
\* read_chunk, JavaChunk::from_bytes and the insert.  A panic inside
\* (get_region's, or from_bytes(..).unwrap() on data that does not decode)
\* poisons the lock of chunks, a panic of get_region the lock of regions too.
\* [ret, chunks, regions, decodes, panic, poisoned] afterwards
get_chunk_write(key) ==
    LET rloc == key[1]
        cloc == key[2]
        region == get_region(regions, rloc)
        n == IF key \in DOMAIN decodes THEN decodes[key] + 1 ELSE 1
        new_chunk == <<key, n>>
        same == [ret |-> None, chunks |-> chunks, regions |-> regions,
                 decodes |-> decodes, panic |-> FALSE, poisoned |-> poisoned]
    IN  IF "chunks" \in poisoned
        THEN [same EXCEPT !.panic = TRUE]
        ELSE IF get_chunk_recheck(chunks, key)
        THEN [same EXCEPT !.ret = Some(chunks[key])]
        ELSE IF region.panic
        THEN [same EXCEPT !.panic = TRUE,
                          !.poisoned = poisoned \cup {"chunks", "regions"}]
        ELSE IF ~region.ret
        THEN [same EXCEPT !.regions = region.regions]
        ELSE IF cloc \in region_files[rloc].absent
        THEN [same EXCEPT !.regions = region.regions]
        ELSE IF <<"decode", key>> \in faults
        THEN [same EXCEPT !.regions = region.regions, !.panic = TRUE,
                          !.poisoned = poisoned \cup {"chunks"}]
        ELSE [same EXCEPT !.ret = Some(new_chunk),
                          !.chunks = Put(chunks, key, new_chunk),
                          !.regions = region.regions,
                          !.decodes = Put(decodes, key, n)]

\* north_key gone wrong: for row 0 the last row of the region itself
north_key_same_region(rloc, cloc) ==
    IF cloc[2] = 0
    THEN <<rloc, CLoc_offset(cloc, 0, 31).loc>>
    ELSE <<rloc, CLoc_offset(cloc, 0, -1).loc>>

\* render_chunk: the key of the north chunk of cloc of rloc
north_key(rloc, cloc) ==
    IF cloc[2] = 0
    THEN <<RLoc_offset(rloc, 0, -1), CLoc_offset(cloc, 0, 31).loc>>
    ELSE <<rloc, CLoc_offset(cloc, 0, -1).loc>>

\* load_cached_image: the image of rloc, a blank one when there is none
load_cached_image(rloc) ==
    IF rloc \in DOMAIN image_files THEN image_files[rloc] ELSE EmptyMap

\* unloaded gone wrong: every chunk of the finished region is dropped, the
\* south region still to come or not
unloaded_own_always(key, rloc, north_region, exist_north, exist_south) ==
    LET c_rloc == key[1]
    IN  \/ (c_rloc = rloc)
        \/ (c_rloc = north_region /\ ~exist_north)

\* unloaded gone wrong: the chunks of the north region are dropped whether
\* or not that region is still in regions_remind
unloaded_north_always(key, rloc, north_region, exist_north, exist_south) ==
    LET c_rloc == key[1]
        c_cloc == key[2]
    IN  \/ (c_rloc = rloc /\ c_cloc[2] < EvictRow)
        \/ (c_rloc = rloc /\ c_cloc[2] = EvictRow /\ ~exist_south)
        \/ (c_rloc = north_region)

\* the closure of chunks_l.retain, negated: is the entry of key dropped
unloaded(key, rloc, north_region, exist_north, exist_south) ==
    LET c_rloc == key[1]
        c_cloc == key[2]
    IN  \/ (c_rloc = rloc /\ c_cloc[2] < EvictRow)
        \/ (c_rloc = rloc /\ c_cloc[2] = EvictRow /\ ~exist_south)
        \/ (c_rloc = north_region /\ ~exist_north)

\* remind_remove gone wrong: the region stays in regions_remind
remind_remove_nothing(remind, rloc) == remind

\* regions_remind_l.remove(&rloc)
remind_remove(remind, rloc) == remind \ {rloc}

\* Dimension::save_cache(&rloc): is the pending snapshot of rloc written
save_cache_writes(rloc) == rloc \in DOMAIN timestamps /\ ~cache_ro

\* Dimension::save_cache(&rloc): the cache directory afterwards
save_cache(rloc) ==
    IF save_cache_writes(rloc)
    THEN Put(cache_files, rloc, timestamps[rloc])
    ELSE cache_files

\* ------------------------------------------------------------------------
\* dim_renderer.rs: render_all
\* ------------------------------------------------------------------------

CanSend == Len(chan) < SyncChannelBound
Send(event) ==
    /\ chan' = Append(chan, event)
    /\ sent' = IF sent = None THEN None ELSE Some(Append(unwrap(sent), event))

\* a closure panics: the pool drops it and its worker takes the next one
Panic(w) ==
    /\ wk' = [wk EXCEPT ![w] = IdleWorker]
    /\ panics' = panics \cup {wk[w].rloc}

\* total_chunks gone wrong: the regions are counted, not their chunks
total_chunks_regions == Cardinality(DOMAIN render_regions)

\* the number carried by BeginAll
total_chunks ==
    LET RECURSIVE fold(_)
        fold(keys) == IF keys = {} THEN 0
                      ELSE LET k == CHOOSE j \in keys : TRUE
                           IN  Cardinality(render_regions[k]) + fold(keys \ {k})
    IN  fold(DOMAIN render_regions)

\* render_all up to pool.join(): BeginAll, regions_remind, one closure per
\* key of render_regions handed to the pool
RenderAll ==
    /\ main_pc = "scan"
    /\ to_scan = {}
    /\ CanSend
    /\ Send(<<"BeginAll", total_chunks>>)
    /\ regions_remind' = DOMAIN render_regions
    /\ jobs' = DOMAIN render_regions
    /\ main_pc' = "join"
    /\ UNCHANGED <<dvars, evars, lvars, fvars, cache_mode, width, run, svars,
                   regions, chunks, wk, decodes, observed,
                   poisoned, completed, panics>>

\* a worker takes a closure: load_cached_image, then render_region up to
\* its Begin event.  The workers of a pool are interchangeable; of the idle
\* ones the first takes the closure.
TaskBegin(w, rloc) ==
    /\ main_pc = "join"
    /\ w <= width
    /\ wk[w].pc = "idle"
    /\ \A v \in 1..(w - 1) : wk[v].pc # "idle"
    /\ rloc \in jobs
    /\ jobs' = jobs \ {rloc}
    /\ CanSend
    /\ Send(<<"Begin", rloc, Cardinality(render_regions[rloc])>>)
    /\ wk' = [wk EXCEPT ![w] =
                [IdleWorker EXCEPT !.pc = "loop", !.rloc = rloc,
                    !.todo = render_regions[rloc],
                    !.buf = IF nocache THEN EmptyMap ELSE load_cached_image(rloc)]]
    /\ UNCHANGED <<dvars, evars, lvars, fvars, cache_mode, width, run, main_pc, svars,
                   regions, chunks, regions_remind, decodes, observed,
                   poisoned, completed, panics>>

\* render_chunk: get_chunk(rloc, cloc) for the next cloc, under the read lock
OwnRead(w, cloc) ==
    /\ wk[w].pc = "loop"
    /\ cloc \in wk[w].todo
    /\ IF "chunks" \in poisoned
       THEN Panic(w)
       ELSE LET chunk == get_chunk_read(<<wk[w].rloc, cloc>>)
            IN  /\ wk' = [wk EXCEPT ![w].cloc = cloc, ![w].chunk = chunk,
                                    ![w].pc = IF chunk = None THEN "own_w" ELSE "north_r"]
                /\ panics' = panics
    /\ UNCHANGED <<dvars, evars, lvars, fvars, cache_mode, width, run, main_pc, svars,
                   regions, chunks, regions_remind, jobs, chan, decodes, observed,
                   poisoned, sent, completed>>

\* render_chunk: get_chunk(rloc, cloc) after a miss, under the write lock
OwnWrite(w) ==
    /\ wk[w].pc = "own_w"
    /\ LET got == get_chunk_write(<<wk[w].rloc, wk[w].cloc>>)
       IN  /\ chunks' = got.chunks
           /\ regions' = got.regions
           /\ decodes' = got.decodes
           /\ poisoned' = got.poisoned
           /\ IF got.panic
              THEN Panic(w)
              ELSE /\ wk' = [wk EXCEPT ![w].chunk = got.ret,
                                ![w].pc = IF got.ret = None THEN "step" ELSE "north_r"]
                   /\ panics' = panics
    /\ UNCHANGED <<dvars, evars, lvars, fvars, cache_mode, width, run, main_pc, svars,
                   regions_remind, jobs, chan, observed, sent, completed>>

\* render_chunk: get_chunk of the north chunk, under the read lock
NorthRead(w) ==
    /\ wk[w].pc = "north_r"
    /\ IF "chunks" \in poisoned
       THEN Panic(w)
       ELSE LET north == get_chunk_read(north_key(wk[w].rloc, wk[w].cloc))
            IN  /\ wk' = [wk EXCEPT ![w].north = north,
                                    ![w].pc = IF north = None THEN "north_w" ELSE "step"]
                /\ panics' = panics
    /\ UNCHANGED <<dvars, evars, lvars, fvars, cache_mode, width, run, main_pc, svars,
                   regions, chunks, regions_remind, jobs, chan, decodes, observed,
                   poisoned, sent, completed>>

\* render_chunk: get_chunk of the north chunk after a miss, under the write lock
NorthWrite(w) ==
    /\ wk[w].pc = "north_w"
    /\ LET got == get_chunk_write(north_key(wk[w].rloc, wk[w].cloc))
       IN  /\ chunks' = got.chunks
           /\ regions' = got.regions
           /\ decodes' = got.decodes
           /\ poisoned' = got.poisoned
           /\ IF got.panic
              THEN Panic(w)
              ELSE /\ wk' = [wk EXCEPT ![w].north = got.ret, ![w].pc = "step"]
                   /\ panics' = panics
    /\ UNCHANGED <<dvars, evars, lvars, fvars, cache_mode, width, run, main_pc, svars,
                   regions_remind, jobs, chan, observed, sent, completed>>

\* step_event gone wrong: every chunk of the loop announces the region anew
step_event_begin(rloc) == <<"Begin", rloc, 1>>

\* RegionProgress::Step(rloc.clone())
step_event(rloc) == <<"Step", rloc>>

\* render_region: the patch of render_chunk copied into buf (when there is
\* one), then the Step event
Step(w) ==
    /\ wk[w].pc = "step"
    /\ CanSend
    /\ Send(step_event(wk[w].rloc))
    /\ LET todo == wk[w].todo \ {wk[w].cloc}
           buf == IF wk[w].chunk = None THEN wk[w].buf
                  ELSE Put(wk[w].buf, wk[w].cloc, <<wk[w].chunk, wk[w].north>>)
       IN  wk' = [wk EXCEPT ![w].todo = todo, ![w].buf = buf,
                            ![w].cloc = None, ![w].chunk = None, ![w].north = None,
                            ![w].pc = IF todo = {} THEN "remove" ELSE "loop"]
    /\ UNCHANGED <<dvars, evars, lvars, fvars, cache_mode, width, run, main_pc, svars,
                   regions, chunks, regions_remind, jobs, decodes, observed,
                   poisoned, completed, panics>>

\* the block holding regions_remind.lock(): remove, two contains (nothing
\* in it panics, so that lock is never poisoned)
Remind(w) ==
    /\ wk[w].pc = "remove"
    /\ LET rloc == wk[w].rloc
           remind == remind_remove(regions_remind, rloc)
           exist_north == RLoc_offset(rloc, 0, -1) \in remind
           exist_south == RLoc_offset(rloc, 0, 1) \in remind
       IN  /\ regions_remind' = remind
           /\ wk' = [wk EXCEPT ![w].exist_north = exist_north,
                               ![w].exist_south = exist_south, ![w].pc = "evict"]
           /\ observed' = Put(observed, rloc, <<exist_north, exist_south>>)
    /\ UNCHANGED <<dvars, evars, lvars, fvars, cache_mode, width, run, main_pc, svars,
                   regions, chunks, jobs, chan, decodes, hvars>>

\* the block holding inner.chunks.write(): retain
Unload(w) ==
    /\ wk[w].pc = "evict"
    /\ IF "chunks" \in poisoned
       THEN Panic(w) /\ chunks' = chunks
       ELSE /\ LET rloc == wk[w].rloc
                   kept == {key \in DOMAIN chunks :
                               ~unloaded(key, rloc, RLoc_offset(rloc, 0, -1),
                                         wk[w].exist_north, wk[w].exist_south)}
               IN  chunks' = [key \in kept |-> chunks[key]]
            /\ wk' = [wk EXCEPT ![w].pc = "save_image"]
            /\ panics' = panics
    /\ UNCHANGED <<dvars, evars, lvars, fvars, cache_mode, width, run, main_pc, svars,
                   regions, regions_remind, jobs, chan, decodes, observed,
                   poisoned, sent, completed>>

\* SaveImage gone wrong: a failed imgbuf.save(..) is ignored and the closure
\* goes on to save_cache
SaveImage_ignoring_error(w) ==
    /\ wk[w].pc = "save_image"
    /\ image_files' = IF <<"image", wk[w].rloc>> \in faults THEN image_files
                      ELSE Put(image_files, wk[w].rloc, wk[w].buf)
    /\ wk' = [wk EXCEPT ![w].pc = "save_cache"]
    /\ panics' = panics
    /\ UNCHANGED <<dvars, evars, lvars, region_files, cache_files, cache_mode, width, run,
                   main_pc, svars, regions, chunks, regions_remind, jobs, chan,
                   decodes, observed, poisoned, sent, completed>>

\* imgbuf.save(write_path).unwrap()
SaveImage(w) ==
    /\ wk[w].pc = "save_image"
    /\ IF <<"image", wk[w].rloc>> \in faults
       THEN Panic(w) /\ image_files' = image_files
       ELSE /\ image_files' = Put(image_files, wk[w].rloc, wk[w].buf)
            /\ wk' = [wk EXCEPT ![w].pc = "save_cache"]
            /\ panics' = panics
    /\ UNCHANGED <<dvars, evars, lvars, region_files, cache_files, cache_mode, width, run,
                   main_pc, svars, regions, chunks, regions_remind, jobs, chan,
                   decodes, observed, poisoned, sent, completed>>

\* inner.dimension.save_cache(&rloc).unwrap()
SaveCache(w) ==
    /\ wk[w].pc = "save_cache"
    /\ IF save_cache_writes(wk[w].rloc) /\ <<"snapshot", wk[w].rloc>> \in faults
       THEN Panic(w) /\ cache_files' = cache_files
       ELSE /\ cache_files' = save_cache(wk[w].rloc)
            /\ wk' = [wk EXCEPT ![w].pc = "end"]
            /\ panics' = panics
    /\ UNCHANGED <<dvars, evars, lvars, region_files, image_files, cache_mode, width, run,
                   main_pc, svars, regions, chunks, regions_remind, jobs, chan,
                   decodes, observed, poisoned, sent, completed>>

\* the End event; the closure returns
TaskEnd(w) ==
    /\ wk[w].pc = "end"
    /\ CanSend
    /\ Send(<<"End", wk[w].rloc>>)
    /\ wk' = [wk EXCEPT ![w] = IdleWorker]
    /\ completed' = completed \cup {wk[w].rloc}
    /\ UNCHANGED <<dvars, evars, lvars, fvars, cache_mode, width, run, main_pc, svars,
                   regions, chunks, regions_remind, jobs, decodes, observed,
                   poisoned, panics>>

\* EndAll gone wrong: EndAll is sent without pool.join()
EndAll_without_join ==
    /\ main_pc = "join"
    /\ CanSend
    /\ Send(<<"EndAll">>)
    /\ main_pc' = "done"
    /\ UNCHANGED <<dvars, evars, lvars, fvars, cache_mode, width, run, svars,
                   regions, chunks, regions_remind, jobs, wk, decodes, observed,
                   poisoned, completed, panics>>

\* pool.join() returns (no closure queued, none running), EndAll;
\* render_all returns and its sender is dropped
EndAll ==
    /\ main_pc = "join"
    /\ jobs = {}
    /\ \A w \in Workers : wk[w].pc = "idle"
    /\ CanSend
    /\ Send(<<"EndAll">>)
    /\ main_pc' = "done"
    /\ UNCHANGED <<dvars, evars, lvars, fvars, cache_mode, width, run, svars,
                   regions, chunks, regions_remind, jobs, wk, decodes, observed,
                   poisoned, completed, panics>>

\* ------------------------------------------------------------------------
\* main.rs: the receiver, the end of the process
\* ------------------------------------------------------------------------

\* one iteration of `for progress in receiver` (bg_mode, normal_mode)
Receive ==
    /\ chan # <<>>
    /\ chan' = Tail(chan)
    /\ UNCHANGED <<dvars, evars, lvars, fvars, cache_mode, width, run, main_pc, svars,
                   regions, chunks, regions_remind, jobs, wk, decodes, observed,
                   hvars>>

\* the process has exited (render_handle joined, the receiver loop over);
\* the program is started again on the same directories
NextRun ==
    /\ main_pc = "done"
    /\ chan = <<>>
    /\ run < MaxRuns
    /\ run' = run + 1
    /\ main_pc' = "scan"
    /\ to_scan' = DOMAIN region_files
    /\ timestamps' = EmptyMap
    /\ render_regions' = EmptyMap
    /\ regions' = {}
    /\ chunks' = EmptyMap
    /\ regions_remind' = {}
    /\ decodes' = EmptyMap
    /\ observed' = EmptyMap
    /\ poisoned' = {}
    /\ sent' = IF sent = None THEN None ELSE Some(<<>>)
    /\ completed' = {}
    /\ panics' = {}
    /\ UNCHANGED <<dvars, evars, lvars, fvars, cache_mode, width, jobs, wk, chan>>

\* ------------------------------------------------------------------------
\* The program: scan, render, and again
\* ------------------------------------------------------------------------

Init ==
    /\ me = None /\ other = None /\ diff_out = None
    /\ off_in = None /\ off_out = None
    /\ \E tables \in [RegionLocs -> RegionTables] :
           /\ Stamped(tables) <= MaxStamped
           /\ region_files = [r \in RegionLocs |->
                  [ts |-> tables[r], absent |-> {}]]
    /\ \E snap \in [RegionLocs -> Snapshots] :
           /\ Cardinality({r \in RegionLocs : snap[r] # None}) <= MaxSnapshots
           /\ cache_files = [r \in {q \in RegionLocs : snap[q] # None} |-> unwrap(snap[r])]
    /\ image_files = EmptyMap
    /\ cache_mode = "Default"
    /\ width \in ThreadPoolWidth..MaxWorkers
    /\ run = 1
    /\ main_pc = "scan"
    /\ to_scan = DOMAIN region_files
    /\ timestamps = EmptyMap
    /\ render_regions = EmptyMap
    /\ regions = {}
    /\ chunks = EmptyMap
    /\ regions_remind = {}
    /\ jobs = {}
    /\ wk = [w \in Workers |-> IdleWorker]
    /\ chan = <<>>
    /\ decodes = EmptyMap
    /\ observed = EmptyMap
    /\ bounds = None
    /\ faults = {}
    /\ poisoned = {}
    /\ sent = None
    /\ completed = {}
    /\ panics = {}
    /\ held = [w \in Workers |-> <<>>]

Next ==
    \/ \E rloc \in RegionLocs : ScanRegion(rloc)
    \/ RenderAll
    \/ \E w \in Workers, rloc \in DOMAIN render_regions : TaskBegin(w, rloc)
    \/ \E w \in Workers, cloc \in ColumnChunks : OwnRead(w, cloc)
    \/ \E w \in Workers : OwnWrite(w)
    \/ \E w \in Workers : NorthRead(w)
    \/ \E w \in Workers : NorthWrite(w)
    \/ \E w \in Workers : Step(w)
    \/ \E w \in Workers : Remind(w)
    \/ \E w \in Workers : Unload(w)
    \/ \E w \in Workers : SaveImage(w)
    \/ \E w \in Workers : SaveCache(w)
    \/ \E w \in Workers : TaskEnd(w)
    \/ EndAll
    \/ Receive
    \/ NextRun

Spec == Init /\ [][Next]_vars

\* ------------------------------------------------------------------------
\* RegionTimestamps::diffs on its own
\* ------------------------------------------------------------------------

InitDiff ==
    /\ me \in DiffTables
    /\ other \in {None} \cup {Some(t) : t \in DiffTables}
    /\ diff_out = None
    /\ off_in = None /\ off_out = None
    /\ region_files = EmptyMap /\ cache_files = EmptyMap /\ image_files = EmptyMap
    /\ cache_mode = "Default" /\ width = ThreadPoolWidth /\ run = 1
    /\ main_pc = "diffs"
    /\ to_scan = {} /\ timestamps = EmptyMap /\ render_regions = EmptyMap
    /\ regions = {} /\ chunks = EmptyMap /\ regions_remind = {} /\ jobs = {}
    /\ wk = [w \in Workers |-> IdleWorker]
    /\ chan = <<>> /\ decodes = EmptyMap /\ observed = EmptyMap
    /\ bounds = None /\ faults = {} /\ poisoned = {} /\ sent = None
    /\ completed = {} /\ panics = {}
    /\ held = [w \in Workers |-> <<>>]

\* a call of region.diffs(cache.as_ref())
CallDiffs ==
    /\ main_pc = "diffs"
    /\ diff_out = None
    /\ diff_out' = Some(diffs(me, other))
    /\ UNCHANGED <<me, other, off_in, off_out, fvars, cache_mode, width, run, main_pc, svars, rvars,
                   evars, lvars, hvars>>

NextDiff == CallDiffs

SpecDiff == InitDiff /\ [][NextDiff]_vars

\* ------------------------------------------------------------------------
\* CLoc::offset on its own
\* ------------------------------------------------------------------------

\* the chunk coordinates and the offsets of the calls tried: the ends of
\* the range, the steps the program takes (1, -1, 31, -16), a whole side,
\* and the ends of i32
OffsetCoords == {0, 5, 15, 31}
OffsetArgs == {I32_MIN, -32, -16, -1, 0, 1, 31, 32, I32_MAX}

InitOffset ==
    /\ me = None /\ other = None /\ diff_out = None
    /\ off_in \in {Some([cloc |-> <<cx, cz>>, x |-> x, z |-> z]) :
                      cx \in OffsetCoords, cz \in {0, 31}, x \in {-1, 0, 1, 32, I32_MAX},
                      z \in OffsetArgs}
    /\ off_out = None
    /\ region_files = EmptyMap /\ cache_files = EmptyMap /\ image_files = EmptyMap
    /\ cache_mode = "Default" /\ width = ThreadPoolWidth /\ run = 1
    /\ main_pc = "offset"
    /\ to_scan = {} /\ timestamps = EmptyMap /\ render_regions = EmptyMap
    /\ regions = {} /\ chunks = EmptyMap /\ regions_remind = {} /\ jobs = {}
    /\ wk = [w \in Workers |-> IdleWorker]
    /\ chan = <<>> /\ decodes = EmptyMap /\ observed = EmptyMap
    /\ bounds = None /\ faults = {} /\ poisoned = {} /\ sent = None
    /\ completed = {} /\ panics = {}
    /\ held = [w \in Workers |-> <<>>]

\* a call of cloc.offset(x, z)
CallOffset ==
    /\ main_pc = "offset"
    /\ off_out = None
    /\ off_out' = Some(CLoc_offset(unwrap(off_in).cloc, unwrap(off_in).x, unwrap(off_in).z))
    /\ UNCHANGED <<me, other, diff_out, off_in, fvars, cache_mode, width, run, main_pc,
                   svars, rvars, evars, lvars, hvars>>

NextOffset == CallOffset

SpecOffset == InitOffset /\ [][NextOffset]_vars

\* ------------------------------------------------------------------------
\* Dimension::from_dimdir on its own
\* ------------------------------------------------------------------------

\* the chunks whose timestamps the region files of the scan checks vary
WideRows == {0, 15, 16, 31}
WideIdx == {z * 32 + x : x \in ScanCols, z \in WideRows}
WideTables == {RawTable(ts) : ts \in [WideIdx -> {0, 2}]}
WideSnapshots ==
    {None, Some(RawTable([i \in WideIdx |-> 1])), Some(RawTable([i \in WideIdx |-> 2]))}

InitScan ==
    /\ me = None /\ other = None /\ diff_out = None
    /\ off_in = None /\ off_out = None
    /\ \E tables \in [RegionLocs -> WideTables] :
           region_files = [r \in RegionLocs |-> [ts |-> tables[r], absent |-> {}]]
    /\ \E snap \in [RegionLocs -> WideSnapshots] :
           cache_files = [r \in {q \in RegionLocs : snap[q] # None} |-> unwrap(snap[r])]
    /\ image_files = EmptyMap
    /\ cache_mode = "Default" /\ width = ThreadPoolWidth /\ run = 1
    /\ main_pc = "scan"
    /\ to_scan = DOMAIN region_files
    /\ timestamps = EmptyMap /\ render_regions = EmptyMap
    /\ regions = {} /\ chunks = EmptyMap /\ regions_remind = {} /\ jobs = {}
    /\ wk = [w \in Workers |-> IdleWorker]
    /\ chan = <<>> /\ decodes = EmptyMap /\ observed = EmptyMap
    /\ bounds = None /\ faults = {} /\ poisoned = {} /\ sent = None
    /\ completed = {} /\ panics = {}
    /\ held = [w \in Workers |-> <<>>]

NextScan == \E rloc \in RegionLocs : ScanRegion(rloc)

SpecScan == InitScan /\ [][NextScan]_vars

\* ------------------------------------------------------------------------
\* The progress events of a run, recorded
\* ------------------------------------------------------------------------

\* the program on a directory without snapshots, every event sent recorded
\* in sent
InitEvents ==
    /\ me = None /\ other = None /\ diff_out = None
    /\ off_in = None /\ off_out = None
    /\ \E tables \in [RegionLocs -> RegionTables] :
           /\ Stamped(tables) <= MaxStamped
           /\ region_files = [r \in RegionLocs |-> [ts |-> tables[r], absent |-> {}]]
    /\ cache_files = EmptyMap /\ image_files = EmptyMap
    /\ cache_mode = "Default" /\ width \in ThreadPoolWidth..MaxWorkers /\ run = 1
    /\ main_pc = "scan"
    /\ to_scan = DOMAIN region_files
    /\ timestamps = EmptyMap /\ render_regions = EmptyMap
    /\ regions = {} /\ chunks = EmptyMap /\ regions_remind = {} /\ jobs = {}
    /\ wk = [w \in Workers |-> IdleWorker]
    /\ chan = <<>> /\ decodes = EmptyMap /\ observed = EmptyMap
    /\ bounds = None /\ faults = {} /\ poisoned = {} /\ sent = Some(<<>>)
    /\ completed = {} /\ panics = {}
    /\ held = [w \in Workers |-> <<>>]

SpecEvents == InitEvents /\ [][Next]_vars

\* ------------------------------------------------------------------------
\* The program under every cache mode, with and without a bounding box
\* ------------------------------------------------------------------------

\* the -R options tried: none, and the one region (0, 0)
Boxes == {None, Some(<<<<0, 0>>, <<0, 0>>>>)}

InitModes ==
    /\ me = None /\ other = None /\ diff_out = None
    /\ off_in = None /\ off_out = None
    /\ \E tables \in [RegionLocs -> RegionTables] :
           /\ Stamped(tables) <= MaxStamped
           /\ region_files = [r \in RegionLocs |-> [ts |-> tables[r], absent |-> {}]]
    /\ \E snap \in [RegionLocs -> Snapshots] :
           /\ Cardinality({r \in RegionLocs : snap[r] # None}) <= MaxSnapshots
           /\ cache_files = [r \in {q \in RegionLocs : snap[q] # None} |-> unwrap(snap[r])]
    /\ image_files = EmptyMap
    /\ cache_mode \in CacheModes
    /\ bounds \in Boxes
    /\ width = ThreadPoolWidth /\ run = 1
    /\ main_pc = "scan"
    /\ to_scan = DOMAIN region_files
    /\ timestamps = EmptyMap /\ render_regions = EmptyMap
    /\ regions = {} /\ chunks = EmptyMap /\ regions_remind = {} /\ jobs = {}
    /\ wk = [w \in Workers |-> IdleWorker]
    /\ chan = <<>> /\ decodes = EmptyMap /\ observed = EmptyMap
    /\ faults = {} /\ poisoned = {} /\ sent = None
    /\ completed = {} /\ panics = {}
    /\ held = [w \in Workers |-> <<>>]

SpecModes == InitModes /\ [][Next]_vars

\* ------------------------------------------------------------------------
\* The program on a directory tree with a chunk missing or an operation
\* failing
\* ------------------------------------------------------------------------

\* the chunks whose data may be missing or undecodable
FaultChunks == {<<x, z>> : x \in ScanCols, z \in ScanRows}

\* the results the closure unwraps: loader.region(..) of get_region,
\* JavaChunk::from_bytes(..) of get_chunk, imgbuf.save(..) and
\* save_cache(..) of the closure
DecodeFaults == {<<"decode", <<rloc, cloc>>>> : rloc \in RegionLocs, cloc \in FaultChunks}
IOFaults == {<<op, rloc>> : op \in {"open", "image", "snapshot"}, rloc \in RegionLocs}

\* number of failing operations in one directory tree
MaxFaults == 1

\* the chunks without data of a region file: none, or one of FaultChunks
AbsentSets == {{}} \cup {{cloc} : cloc \in FaultChunks}

InitFail ==
    /\ me = None /\ other = None /\ diff_out = None
    /\ off_in = None /\ off_out = None
    /\ \E tables \in [RegionLocs -> RegionTables] :
           /\ Stamped(tables) <= MaxStamped
           /\ \E absent \in [RegionLocs -> AbsentSets] :
                  region_files = [r \in RegionLocs |-> [ts |-> tables[r], absent |-> absent[r]]]
    /\ cache_files = EmptyMap /\ image_files = EmptyMap
    /\ cache_mode = "Default" /\ bounds = None
    /\ faults \in {f \in SUBSET (DecodeFaults \cup IOFaults) : Cardinality(f) <= MaxFaults}
    /\ width = ThreadPoolWidth /\ run = 1
    /\ main_pc = "scan"
    /\ to_scan = DOMAIN region_files
    /\ timestamps = EmptyMap /\ render_regions = EmptyMap
    /\ regions = {} /\ chunks = EmptyMap /\ regions_remind = {} /\ jobs = {}
    /\ wk = [w \in Workers |-> IdleWorker]
    /\ chan = <<>> /\ decodes = EmptyMap /\ observed = EmptyMap
    /\ poisoned = {} /\ sent = None
    /\ completed = {} /\ panics = {}
    /\ held = [w \in Workers |-> <<>>]

SpecFail == InitFail /\ [][Next]_vars

\* ------------------------------------------------------------------------
\* The locks of the renderer: get_chunk and get_region with one step per
\* lock taken, on a directory tree where no operation fails
\* ------------------------------------------------------------------------

\* inner.chunks.write(), inner.regions.lock(), region.lock() of one region,
\* and the order in which get_chunk nests them
LockRank == [chunks_write |-> 1, regions |-> 2, region |-> 3]

\* the pc values of a worker inside get_chunk(rloc, cloc), and inside
\* get_chunk of the north chunk
OwnPcs == {"own_w", "own_gr", "own_reg", "own_rc", "own_rgn"}
NorthPcs == {"north_w", "north_gr", "north_reg", "north_rc", "north_rgn"}

\* the key worker w is inside get_chunk for
fetch_key(w) ==
    IF wk[w].pc \in OwnPcs THEN <<wk[w].rloc, wk[w].cloc>>
    ELSE north_key(wk[w].rloc, wk[w].cloc)

holds(w, l) == \E i \in 1..Len(held[w]) : held[w][i] = l

\* chunks.read() goes through: no writer
read_free == \A v \in Workers : ~holds(v, "chunks_write")

\* chunks.write() goes through: no writer (a reader holds its guard within
\* one step only)
write_free == \A v \in Workers : ~holds(v, "chunks_write")

\* inner.regions.lock() goes through
regions_free == \A v \in Workers : ~holds(v, "regions")

\* region.lock() of the region rloc goes through
region_free(rloc) ==
    \A v \in Workers : holds(v, "region") => fetch_key(v)[1] # rloc

\* a guard is taken
lock(h, w, l) == [h EXCEPT ![w] = Append(@, l)]

\* unlock gone wrong: the guard is leaked, the lock stays taken
unlock_forgotten(h, w, l) == h

\* a guard is dropped
unlock(h, w, l) == [h EXCEPT ![w] = SelectSeq(@, LAMBDA m : m # l)]

\* get_chunk returns ret to render_chunk
Return(w, ret) ==
    wk' = IF wk[w].pc \in OwnPcs
          THEN [wk EXCEPT ![w].chunk = ret,
                          ![w].pc = IF ret = None THEN "step" ELSE "north_r"]
          ELSE [wk EXCEPT ![w].north = ret, ![w].pc = "step"]

\* the pc of worker w becomes the one named by own or north, as it is
\* inside get_chunk of the chunk or of the north chunk
Goto(w, own, north) ==
    wk' = [wk EXCEPT ![w].pc = IF wk[w].pc \in OwnPcs THEN own ELSE north]

\* get_chunk: chunks_r.read(), the lookup, the guard dropped
LockedOwnRead(w, cloc) == read_free /\ OwnRead(w, cloc)
LockedNorthRead(w) == read_free /\ NorthRead(w)

\* get_chunk: chunks_r.write() and the second lookup; a chunk found is
\* returned and the guard dropped
WriteLock(w) ==
    /\ wk[w].pc \in {"own_w", "north_w"}
    /\ write_free
    /\ LET key == fetch_key(w)
           taken == lock(held, w, "chunks_write")
       IN  IF "chunks" \in poisoned
           THEN Panic(w) /\ held' = held
           ELSE IF get_chunk_recheck(chunks, key)
           THEN /\ Return(w, Some(chunks[key]))
                /\ held' = unlock(taken, w, "chunks_write")
                /\ panics' = panics
           ELSE /\ Goto(w, "own_gr", "north_gr")
                /\ held' = taken
                /\ panics' = panics
    /\ UNCHANGED <<dvars, evars, fvars, cache_mode, width, run, main_pc, svars,
                   regions, chunks, regions_remind, jobs, chan, decodes, observed,
                   poisoned, sent, completed>>

\* get_region: inner.regions.lock()
RegionsLock(w) ==
    /\ wk[w].pc \in {"own_gr", "north_gr"}
    /\ regions_free
    /\ held' = lock(held, w, "regions")
    /\ Goto(w, "own_reg", "north_reg")
    /\ UNCHANGED <<dvars, evars, fvars, cache_mode, width, run, main_pc, svars,
                   regions, chunks, regions_remind, jobs, chan, decodes, observed,
                   hvars>>

\* get_region under its lock, which it drops on return; without a region
\* get_chunk returns None and drops the write guard
GetRegion(w) ==
    /\ wk[w].pc \in {"own_reg", "north_reg"}
    /\ LET region == get_region(regions, fetch_key(w)[1])
           dropped == unlock(held, w, "regions")
       IN  /\ regions' = region.regions
           /\ IF region.panic
              THEN /\ Panic(w)
                   /\ held' = unlock(dropped, w, "chunks_write")
                   /\ poisoned' = poisoned \cup {"chunks", "regions"}
              ELSE IF ~region.ret
              THEN /\ Return(w, None)
                   /\ held' = unlock(dropped, w, "chunks_write")
                   /\ UNCHANGED <<poisoned, panics>>
              ELSE /\ Goto(w, "own_rc", "north_rc")
                   /\ held' = dropped
                   /\ UNCHANGED <<poisoned, panics>>
    /\ UNCHANGED <<dvars, evars, fvars, cache_mode, width, run, main_pc, svars,
                   chunks, regions_remind, jobs, chan, decodes, observed,
                   sent, completed>>

\* get_chunk: region.lock()
RegionLock(w) ==
    /\ wk[w].pc \in {"own_rc", "north_rc"}
    /\ region_free(fetch_key(w)[1])
    /\ held' = lock(held, w, "region")
    /\ Goto(w, "own_rgn", "north_rgn")
    /\ UNCHANGED <<dvars, evars, fvars, cache_mode, width, run, main_pc, svars,
                   regions, chunks, regions_remind, jobs, chan, decodes, observed,
                   hvars>>

\* get_chunk: read_chunk under the lock of the region, which is dropped at
\* the end of the statement; JavaChunk::from_bytes, the insert, the return
\* that drops the write guard
ReadChunk(w) ==
    /\ wk[w].pc \in {"own_rgn", "north_rgn"}
    /\ LET key == fetch_key(w)
           n == IF key \in DOMAIN decodes THEN decodes[key] + 1 ELSE 1
           new_chunk == <<key, n>>
           dropped == unlock(unlock(held, w, "region"), w, "chunks_write")
       IN  /\ held' = dropped
           /\ IF key[2] \in region_files[key[1]].absent
              THEN /\ Return(w, None)
                   /\ UNCHANGED <<chunks, decodes, poisoned, panics>>
              ELSE IF <<"decode", key>> \in faults
              THEN /\ Panic(w)
                   /\ poisoned' = poisoned \cup {"chunks"}
                   /\ UNCHANGED <<chunks, decodes>>
              ELSE /\ Return(w, Some(new_chunk))
                   /\ chunks' = Put(chunks, key, new_chunk)
                   /\ decodes' = Put(decodes, key, n)
                   /\ UNCHANGED <<poisoned, panics>>
    /\ UNCHANGED <<dvars, evars, fvars, cache_mode, width, run, main_pc, svars,
                   regions, regions_remind, jobs, chan, observed, sent, completed>>

\* the retain block: inner.chunks.write(), retain, the guard dropped
LockedUnload(w) == write_free /\ Unload(w)

\* number of timestamped chunks of a directory rendered by a pool of more
\* than one worker
MaxContended == 1

InitLocks ==
    /\ me = None /\ other = None /\ diff_out = None
    /\ off_in = None /\ off_out = None
    /\ width \in ThreadPoolWidth..MaxWorkers
    /\ \E tables \in [RegionLocs -> RegionTables] :
           /\ Stamped(tables) <= (IF width = ThreadPoolWidth THEN MaxStamped ELSE MaxContended)
           /\ region_files = [r \in RegionLocs |-> [ts |-> tables[r], absent |-> {}]]
    /\ cache_files = EmptyMap /\ image_files = EmptyMap
    /\ cache_mode = "Default" /\ run = 1
    /\ main_pc = "scan"
    /\ to_scan = DOMAIN region_files
    /\ timestamps = EmptyMap /\ render_regions = EmptyMap
    /\ regions = {} /\ chunks = EmptyMap /\ regions_remind = {} /\ jobs = {}
    /\ wk = [w \in Workers |-> IdleWorker]
    /\ chan = <<>> /\ decodes = EmptyMap /\ observed = EmptyMap
    /\ bounds = None /\ faults = {} /\ poisoned = {} /\ sent = None
    /\ completed = {} /\ panics = {}
    /\ held = [w \in Workers |-> <<>>]

NextLocks ==
    \/ \E rloc \in RegionLocs : ScanRegion(rloc)
    \/ RenderAll
    \/ \E w \in Workers, rloc \in DOMAIN render_regions : TaskBegin(w, rloc)
    \/ \E w \in Workers, cloc \in ColumnChunks : LockedOwnRead(w, cloc)
    \/ \E w \in Workers : LockedNorthRead(w)
    \/ \E w \in Workers : WriteLock(w)
    \/ \E w \in Workers : RegionsLock(w)
    \/ \E w \in Workers : GetRegion(w)
    \/ \E w \in Workers : RegionLock(w)
    \/ \E w \in Workers : ReadChunk(w)
    \/ \E w \in Workers : Step(w)
    \/ \E w \in Workers : Remind(w)
    \/ \E w \in Workers : LockedUnload(w)
    \/ \E w \in Workers : SaveImage(w)
    \/ \E w \in Workers : SaveCache(w)
    \/ \E w \in Workers : TaskEnd(w)
    \/ EndAll
    \/ Receive

\* the threads are scheduled: while a thread of the process can take a step
\* (the thread of render_all, a worker of the pool, the receiver loop of
\* main), one of them does
SpecLocks == InitLocks /\ [][NextLocks]_vars /\ WF_vars(NextLocks)

\* ------------------------------------------------------------------------
\* Properties
\* ------------------------------------------------------------------------

\* every closure of render_all has run to its end
AllCompleted ==
    /\ main_pc \in {"join", "done"}
    /\ jobs = {}
    /\ \A w \in Workers : wk[w].pc = "idle"

\* the step of worker w is the retain block of its closure
UnloadStep(w) == wk[w].pc = "evict" /\ wk'[w].pc = "save_image"

\* the keys of a chunks map under region rloc, in chunk row z
KeysAt(chs, rloc, z) == {key \in DOMAIN chs : key[1] = rloc /\ key[2][2] = z}

\* C1: once the closure of every region of render_regions has run to its
\* end, the chunks map has no entry.
C1_ChunksEmptyWhenAllCompleted == AllCompleted => DOMAIN chunks = {}

\* the diff from_dimdir computes for the region file of rloc
LocalDiff(rloc) ==
    LET diff == diffs(region_files[rloc].ts, read_cache(rloc))
    IN  {diff[k] : k \in 1..Len(diff)}

\* C2: when the scan is over, for every chunk (x, SIDE-1) in the diff of a
\* region (rx, rz), render_regions holds (x, 0) under (rx, rz+1).
C2_LastRowReachesSouthRegion ==
    to_scan = {} =>
        \A rloc \in RegionLocs : \A cloc \in LocalDiff(rloc) :
            cloc[2] = SIDE - 1 =>
                /\ RLoc_offset(rloc, 0, 1) \in DOMAIN render_regions
                /\ <<cloc[1], 0>> \in render_regions[RLoc_offset(rloc, 0, 1)]

\* C3: right after the retain block of the closure of region P, the chunks
\* map has no key under P in a row below SIDE-1.
C3_NoKeyBelowLastRowAfterUnload ==
    [][\A w \in Workers :
          UnloadStep(w) =>
              \A key \in DOMAIN chunks' :
                  key[1] = wk[w].rloc => key[2][2] >= SIDE - 1]_vars

\* C4: right after the retain block of the closure of region P, a row
\* SIDE-1 key under P being cached before it, the chunks map holds a row
\* SIDE-1 key under P if and only if the region south of P was in
\* regions_remind when P was removed from it.
C4_LastRowKeptIffSouthRemains ==
    [][\A w \in Workers :
          (UnloadStep(w) /\ KeysAt(chunks, wk[w].rloc, SIDE - 1) # {}) =>
              (KeysAt(chunks', wk[w].rloc, SIDE - 1) # {} <=> wk[w].exist_south)]_vars

\* C5 as stated: right after the retain block of the closure of region P,
\* the chunks map holds a row 0 key under the region north of P if and only
\* if that region was in regions_remind when P was removed from it.
C5_NorthRowZeroIffNorthRemains ==
    [][\A w \in Workers :
          UnloadStep(w) =>
              (KeysAt(chunks', RLoc_offset(wk[w].rloc, 0, -1), 0) # {}
                  <=> wk[w].exist_north)]_vars

\* C5 amended: the retain block of the closure of region P leaves the row 0
\* keys under the region north of P as they were if that region was in
\* regions_remind when P was removed from it, and leaves none of them if it
\* was not; so a row 0 key under the north region is cached right after the
\* block only if the north region was still in regions_remind.
C5_NorthRowZeroKeptIffNorthRemains ==
    [][\A w \in Workers :
          UnloadStep(w) =>
              KeysAt(chunks', RLoc_offset(wk[w].rloc, 0, -1), 0) =
                  IF wk[w].exist_north
                  THEN KeysAt(chunks, RLoc_offset(wk[w].rloc, 0, -1), 0)
                  ELSE {}]_vars

\* a closure has done its retain block while the region north of it, still
\* in regions_remind, has a row 0 chunk cached
C5_Witness ==
    \E w \in Workers :
        /\ wk[w].pc = "save_image"
        /\ wk[w].exist_north
        /\ RLoc_offset(wk[w].rloc, 0, -1) \in regions_remind
        /\ KeysAt(chunks, RLoc_offset(wk[w].rloc, 0, -1), 0) # {}

\* worker w is between the two lookups of a get_chunk(key): the lookup under
\* the read lock found nothing, the write lock is not taken yet
Pending(w, key) ==
    \/ wk[w].pc = "own_w" /\ key = <<wk[w].rloc, wk[w].cloc>>
    \/ wk[w].pc = "north_w" /\ key = north_key(wk[w].rloc, wk[w].cloc)

\* the handles get_chunk returned to worker w, which it still holds
Held(w) ==
    {unwrap(o) : o \in {wk[w].chunk, wk[w].north} \ {None}}

\* C6: of the workers inside get_chunk for one key, absent from the cache,
\* at most one decodes it; one handle is inserted and every caller gets it:
\* two workers never hold different handles of a key, and while a worker
\* that missed waits for the write lock, a handle another worker holds of
\* that key is the only one decoded and is the cached one.
C6_ConcurrentGetChunkDecodesOnce ==
    \A w \in Workers : \A v \in Workers \ {w} : \A h \in Held(w) :
        /\ \A g \in Held(v) : g[1] = h[1] => g = h
        /\ Pending(v, h[1]) =>
              /\ h[1] \in DOMAIN chunks
              /\ chunks[h[1]] = h
              /\ decodes[h[1]] = h[2]

\* two workers missed the same key under the read lock; one has decoded and
\* inserted it and holds the handle, the other has not taken the write lock
C6_Witness ==
    \E w \in Workers : \E v \in Workers \ {w} : \E h \in Held(w) :
        Pending(v, h[1]) /\ h[1] \in DOMAIN chunks

\* C7: of two vertically adjacent regions whose closures have both left
\* regions_remind, never each has seen the other still in it.
C7_NeverBothSeeTheOther ==
    \A rloc \in DOMAIN observed :
        LET south == RLoc_offset(rloc, 0, 1)
        IN  south \in DOMAIN observed => ~(observed[rloc][2] /\ observed[south][1])

\* two workers are past the regions_remind block of two vertically adjacent
\* regions at once, neither having reached its retain block
C7_Witness ==
    \E w \in Workers : \E v \in Workers \ {w} :
        /\ wk[w].pc = "evict" /\ wk[v].pc = "evict"
        /\ wk[v].rloc = RLoc_offset(wk[w].rloc, 0, 1)

\* the timestamp table a rawdata of DiffTables was written from
TableOf(rawdata) ==
    LET ts == CHOOSE t \in [DiffIdx -> DiffVals] : RawTable(t) = rawdata
    IN  [i \in 0..1023 |-> IF i \in DiffIdx THEN ts[i] ELSE 0]

\* the elements of a Vec
Elems(vec) == {vec[k] : k \in 1..Len(vec)}

\* C8: diffs(T_a, Some(T_b)) returns the coordinates (i mod 32, i div 32) of
\* exactly the indices i with T_a[i] # 0 and T_a[i] # T_b[i], each once.
C8_DiffsAgainstSnapshot ==
    (diff_out # None /\ other # None) =>
        LET t_a == TableOf(me)
            t_b == TableOf(unwrap(other))
            d == unwrap(diff_out)
        IN  /\ Elems(d) = {<<i % SIDE, i \div SIDE>> :
                              i \in {j \in 0..1023 : t_a[j] # 0 /\ t_a[j] # t_b[j]}}
            /\ \A k, l \in 1..Len(d) : d[k] = d[l] => k = l

\* diffs has returned a chunk whose snapshot timestamp is 0 and a chunk
\* whose snapshot timestamp is another one than the table's
C8_Witness ==
    /\ diff_out # None /\ other # None
    /\ \E i, j \in DiffIdx :
          /\ TableOf(unwrap(other))[i] = 0
          /\ TableOf(unwrap(other))[j] # 0
          /\ {<<i % SIDE, i \div SIDE>>, <<j % SIDE, j \div SIDE>>}
                 \subseteq Elems(unwrap(diff_out))

\* C9: diffs(T, None) returns exactly the coordinates whose timestamp in T
\* is not 0 (and returns: no snapshot is no error).
C9_DiffsColdStart ==
    (main_pc = "diffs" /\ diff_out # None /\ other = None) =>
        Elems(unwrap(diff_out)) =
            {<<i % SIDE, i \div SIDE>> : i \in {j \in 0..1023 : TableOf(me)[j] # 0}}

\* diffs has returned, without a snapshot, for a table with timestamps and
\* chunks without one
C9_Witness ==
    /\ main_pc = "diffs" /\ diff_out # None /\ other = None
    /\ Elems(unwrap(diff_out)) # {}
    /\ \E i \in DiffIdx : TableOf(me)[i] = 0

\* C10: a run that follows a completed run over the same region files ends
\* its scan with render_regions and timestamps empty, and writes no image
\* and no snapshot.
C10_SecondRunIdle ==
    /\ []((run >= 2 /\ to_scan = {}) =>
             (DOMAIN render_regions = {} /\ DOMAIN timestamps = {}))
    /\ [][run >= 2 => (image_files' = image_files /\ cache_files' = cache_files)]_vars

\* the second run is over, the first one having written an image and the
\* snapshot of a region file
C10_Witness ==
    /\ run = 2 /\ main_pc = "done"
    /\ DOMAIN image_files # {}
    /\ \E rloc \in DOMAIN cache_files : cache_files[rloc] = region_files[rloc].ts
    /\ \E rloc \in DOMAIN region_files : Timestamped(region_files[rloc].ts) # {}

\* the events recorded in sent
Log == IF sent = None THEN <<>> ELSE unwrap(sent)

\* C11: of the events of a run BeginAll is the first and no other one, and
\* EndAll, once sent, is the last: every Begin, Step and End comes after
\* BeginAll and before EndAll; a run that is over has sent EndAll.
C11_BeginAllFirstEndAllLast ==
    /\ \A k \in 1..Len(Log) :
          /\ (Log[k][1] = "BeginAll") <=> (k = 1)
          /\ (Log[k][1] = "EndAll") => (k = Len(Log))
    /\ main_pc = "done" => (Log # <<>> /\ Log[Len(Log)][1] = "EndAll")
    /\ (Log # <<>> /\ Log[Len(Log)][1] = "EndAll") => main_pc = "done"

\* a run on a pool of two workers is over, the events of two regions
\* interleaved: both Begin events came before any End event
C11_Witness ==
    /\ main_pc = "done" /\ width = 2
    /\ \E i, j \in 1..Len(Log) :
          /\ i < j
          /\ Log[i][1] = "Begin" /\ Log[j][1] = "Begin"
          /\ \A k \in 1..j : Log[k][1] # "End"

\* the events of the log that carry the region rloc
EventsOf(rloc) ==
    SelectSeq(Log, LAMBDA e : e[1] \in {"Begin", "Step", "End"} /\ e[2] = rloc)

\* C12: the events carrying a region P of render_regions are one Begin(P, n),
\* n the number of chunks of P, then Step(P) events, then at most one End(P),
\* which is the last of them; a run that is over has sent the Begin of every
\* region of render_regions, and no event carries another region.
C12_BeginStepsEndPerRegion ==
    /\ \A k \in 1..Len(Log) :
          Log[k][1] \in {"Begin", "Step", "End"} => Log[k][2] \in DOMAIN render_regions
    /\ \A rloc \in DOMAIN render_regions :
          LET ev == EventsOf(rloc)
          IN  /\ \A k \in 1..Len(ev) :
                    /\ (ev[k][1] = "Begin") <=> (k = 1)
                    /\ (ev[k][1] = "End") => (k = Len(ev))
              /\ ev # <<>> => ev[1] = <<"Begin", rloc, Cardinality(render_regions[rloc])>>
              /\ main_pc = "done" => ev # <<>>

\* a run is over in which a region has sent Begin, two Step and End while
\* another region sent events in between
C12_Witness ==
    /\ main_pc = "done"
    /\ \E rloc \in DOMAIN render_regions :
          /\ Len(EventsOf(rloc)) >= 4
          /\ EventsOf(rloc)[Len(EventsOf(rloc))][1] = "End"
          /\ \E i, j, k \in 1..Len(Log) :
                /\ i < j /\ j < k
                /\ Log[i] = <<"Begin", rloc, Cardinality(render_regions[rloc])>>
                /\ Log[j][1] \in {"Begin", "Step", "End"} /\ Log[j][2] # rloc
                /\ Log[k] = <<"End", rloc>>

\* the chunks the scan is to require of region rloc when rows 0..SIDE-2
\* propagate inside the region and row SIDE-1 to row 0 of the south region
Required(rloc) ==
    LET north == RLoc_offset(rloc, 0, -1)
    IN  LocalDiff(rloc)
        \cup {<<c[1], c[2] + 1>> : c \in {d \in LocalDiff(rloc) : d[2] < SIDE - 1}}
        \cup (IF north \in RegionLocs
              THEN {<<c[1], 0>> : c \in {d \in LocalDiff(north) : d[2] = SIDE - 1}}
              ELSE {})

\* C13: when the scan is over, for every chunk (x, z) with z < SIDE-1 in the
\* diff of a region, render_regions holds (x, z) and (x, z+1) under that
\* region, and holds nothing under any region but what its own diff and
\* the last row of its north region require.
C13_LocalSouthPropagation ==
    to_scan = {} =>
        /\ \A rloc \in RegionLocs : \A cloc \in LocalDiff(rloc) :
               cloc[2] < SIDE - 1 =>
                   /\ rloc \in DOMAIN render_regions
                   /\ {cloc, <<cloc[1], cloc[2] + 1>>} \subseteq render_regions[rloc]
        /\ \A rloc \in DOMAIN render_regions :
               render_regions[rloc] \subseteq
                   (IF rloc \in RegionLocs THEN Required(rloc)
                    ELSE {<<c[1], 0>> : c \in {d \in LocalDiff(RLoc_offset(rloc, 0, -1)) :
                                                  d[2] = SIDE - 1}})

\* the timestamp a rawdata holds at a table index
TsAt(rawdata, index) ==
    from_be_bytes(Byte(rawdata, 4 * index), Byte(rawdata, 4 * index + 1),
                  Byte(rawdata, 4 * index + 2), Byte(rawdata, 4 * index + 3))

\* has the region file of rloc a chunk with a timestamp that its snapshot,
\* if there is one, does not hold (a timestamp that is not 0 has a byte that
\* is not 0, so only the indices of such bytes are looked at)
HasLocalDiff(rloc) ==
    LET region == region_files[rloc].ts
    IN  \E index \in {k \div 4 : k \in DOMAIN region} :
            /\ TsAt(region, index) > 0
            /\ rloc \in DOMAIN cache_files =>
                   TsAt(cache_files[rloc], index) # TsAt(region, index)

\* C14: when the scan is over, timestamps holds exactly the regions whose
\* diff is not empty; and a step of the render writes or replaces a snapshot
\* only of a region whose diff is not empty, so a region that is in
\* render_regions for its north region's sake alone gets none.
C14_SnapshotsOnlyOfLocalDiffs ==
    /\ []((main_pc = "scan" /\ to_scan = {}) =>
             DOMAIN timestamps = {rloc \in RegionLocs : HasLocalDiff(rloc)})
    /\ [][\A rloc \in DOMAIN cache_files' :
              (rloc \notin DOMAIN cache_files \/ cache_files'[rloc] # cache_files[rloc])
                  => (rloc \in RegionLocs /\ HasLocalDiff(rloc))]_vars

\* the closure of a region with a region file and an empty diff, required
\* for its north region's sake, has saved its image and is past save_cache
C14_Witness ==
    \E w \in Workers :
        /\ wk[w].pc = "end"
        /\ wk[w].rloc \in RegionLocs
        /\ wk[w].rloc \notin DOMAIN timestamps
        /\ wk[w].rloc \in DOMAIN image_files
        /\ RLoc_offset(wk[w].rloc, 0, -1) \in DOMAIN timestamps

\* C15: with a bounding box, a region outside the box is not scanned (it
\* has no entry in timestamps), and no image and no snapshot is written for
\* it.
C15_OutOfBoundsUntouched ==
    /\ [](\A rloc \in DOMAIN timestamps \cup DOMAIN image_files : in_bounds(rloc))
    /\ [][\A rloc \in DOMAIN cache_files' :
              ~in_bounds(rloc) =>
                  (rloc \in DOMAIN cache_files /\ cache_files'[rloc] = cache_files[rloc])]_vars

C17_NoCacheNoCacheIO ==
    /\ []((cache_mode \in {"NoCache", "Refresh"} /\ main_pc = "scan" /\ to_scan = {}) =>
             DOMAIN timestamps =
                 {rloc \in RegionLocs :
                     in_bounds(rloc) /\ Timestamped(region_files[rloc].ts) # {}})
    /\ [][cache_mode = "NoCache" => cache_files' = cache_files]_vars

\* C18: when nothing fails but chunks being absent or not decoding, no
\* closure panics, no image holds a patch of such a chunk (its part of the
\* canvas is left as it was), and the run ends with every closure returned
\* after its End.
C18_MissingChunkNonFatal ==
    faults \subseteq DecodeFaults =>
        /\ panics = {}
        /\ main_pc = "done" => completed = DOMAIN render_regions
        /\ \A rloc \in DOMAIN image_files : \A cloc \in DOMAIN image_files[rloc] :
               /\ rloc \in RegionLocs => cloc \notin region_files[rloc].absent
               /\ <<"decode", <<rloc, cloc>>>> \notin faults

\* C19: when an open, an image write or a snapshot write fails, then from
\* the panic of the closure on no closure returns any more and EndAll is not
\* sent.
C19_IOFailureAbortsRun ==
    /\ []((faults \subseteq IOFaults /\ panics # {}) => main_pc # "done")
    /\ [][(faults \subseteq IOFaults /\ panics # {}) => completed' = completed]_vars

\* the patch of every chunk (x, z) of a region (rx, rz) is rendered from the
\* chunk itself and, as its north chunk, from the handle of key
\* ((rx, rz-1), (x, 31)) if z = 0 and of key ((rx, rz), (x, z-1)) otherwise,
\* or from none
PatchNorthOk(rloc, cloc, chunk, north) ==
    LET want == IF cloc[2] = 0
                THEN <<<<rloc[1], rloc[2] - 1>>, <<cloc[1], 31>>>>
                ELSE <<rloc, <<cloc[1], cloc[2] - 1>>>>
    IN  /\ chunk[1] = <<rloc, cloc>>
        /\ north # None => unwrap(north)[1] = want
        \* every chunk of a region file having data here, the north handle
        \* is missing exactly when there is no region file for it
        /\ north = None <=> want[1] \notin DOMAIN region_files

\* C20: the north handle of a chunk is fetched under the key of the last
\* row of the north region for row 0 and under the key of the row above in
\* the same region otherwise; a chunk with a handle whose north handle is
\* unavailable is rendered all the same, without north chunk.
C20_NorthContextSelection ==
    /\ \A w \in Workers :
          /\ \A cloc \in DOMAIN wk[w].buf :
                PatchNorthOk(wk[w].rloc, cloc, unwrap(wk[w].buf[cloc][1]), wk[w].buf[cloc][2])
          /\ wk[w].pc \in {"remove", "evict", "save_image", "save_cache", "end"} =>
                \A cloc \in render_regions[wk[w].rloc] :
                    wk[w].rloc \in DOMAIN region_files => cloc \in DOMAIN wk[w].buf
    /\ \A rloc \in DOMAIN image_files : \A cloc \in DOMAIN image_files[rloc] :
          PatchNorthOk(rloc, cloc, unwrap(image_files[rloc][cloc][1]), image_files[rloc][cloc][2])

\* the images hold a patch of a row 0 chunk rendered with the last row of
\* the north region, and a patch of a row 0 chunk rendered without north
\* chunk, its north region having no file
C20_Witness ==
    /\ \E rloc \in DOMAIN image_files : \E cloc \in DOMAIN image_files[rloc] :
          /\ cloc[2] = 0
          /\ image_files[rloc][cloc][2] # None
    /\ \E rloc \in DOMAIN image_files : \E cloc \in DOMAIN image_files[rloc] :
          /\ cloc[2] = 0
          /\ image_files[rloc][cloc][2] = None

DiffOf(rloc) == IF rloc \in RegionLocs THEN LocalDiff(rloc) ELSE {}

\* C22: when the scan is over, every chunk render_regions holds under a
\* region is a chunk of the diff of that region, or the chunk south of one
\* ((x, z+1) for a chunk (x, z) of its diff with z < SIDE-1, (x, 0) for a
\* chunk (x, SIDE-1) of the diff of its north region).
C22_WorkMapMinimal ==
    to_scan = {} =>
        \A rloc \in DOMAIN render_regions : \A cloc \in render_regions[rloc] :
            \/ cloc \in DiffOf(rloc)
            \/ /\ cloc[2] > 0
               /\ <<cloc[1], cloc[2] - 1>> \in DiffOf(rloc)
            \/ /\ cloc[2] = 0
               /\ <<cloc[1], SIDE - 1>> \in DiffOf(RLoc_offset(rloc, 0, -1))

\* C23: regions_remind is the key set of render_regions when the closures
\* are queued, never grows while they run, loses a region only in the step
\* of that region's closure that follows the Step of the last of its
\* chunks, and is empty when EndAll has been sent.
C23_RemindShrinksToEmpty ==
    /\ [](main_pc = "done" => regions_remind = {})
    /\ [][(main_pc = "scan" /\ main_pc' = "join") =>
              regions_remind' = DOMAIN render_regions]_vars
    /\ [][main_pc = "join" =>
              (/\ regions_remind' \subseteq regions_remind
               /\ \A rloc \in regions_remind \ regions_remind' :
                     \E w \in Workers :
                         /\ wk[w].rloc = rloc
                         /\ wk[w].pc = "remove"
                         /\ wk[w].todo = {}
                         /\ wk'[w].pc = "evict")]_vars

\* one region has left regions_remind while another, whose closure is at
\* work on its chunks, is still in it
C23_Witness ==
    /\ main_pc = "join"
    /\ DOMAIN render_regions \ regions_remind # {}
    /\ \E w \in Workers :
          /\ wk[w].pc \in {"loop", "own_w", "north_r", "north_w", "step"}
          /\ wk[w].rloc \in regions_remind

\* C24: within a run no key is decoded and inserted into chunks more than
\* once: the retain block of a closure drops no chunk that a closure still
\* to finish asks for again.
C24_NoKeyDecodedTwice ==
    \A key \in DOMAIN decodes : decodes[key] <= 1

\* a closure holds, as north chunk, a chunk of the north region that the
\* closure of the north region decoded and, having returned, left cached
C24_Witness ==
    /\ width = 1
    /\ \E w \in Workers :
          LET north_region == RLoc_offset(wk[w].rloc, 0, -1)
          IN  /\ wk[w].pc = "step"
              /\ wk[w].north # None
              /\ north_region \in completed
              /\ unwrap(wk[w].north)[1][1] = north_region
              /\ unwrap(wk[w].north)[1][2] \in render_regions[north_region]
              /\ decodes[unwrap(wk[w].north)[1]] = 1

\* the number of Step events of the log that carry the region rloc
StepsOf(rloc) ==
    Len(SelectSeq(Log, LAMBDA e : e[1] = "Step" /\ e[2] = rloc))

\* the sum of the numbers carried by the Begin events of the log
RECURSIVE BeginSum(_)
BeginSum(k) ==
    IF k = 0 THEN 0
    ELSE (IF Log[k][1] = "Begin" THEN Log[k][3] ELSE 0) + BeginSum(k - 1)

\* C25: a region P never has more Step(P) events than the n of its
\* Begin(P, n), n the number of chunks of P in render_regions, and has
\* exactly n of them once End(P) is sent, rendered or not; the number
\* carried by BeginAll is the sum of the n of all regions, which in a run
\* that is over is the sum over the Begin events sent.
C25_ProgressAccounting ==
    /\ \A rloc \in DOMAIN render_regions :
          LET n == Cardinality(render_regions[rloc])
          IN  /\ StepsOf(rloc) <= n
              /\ (\E k \in 1..Len(Log) : Log[k] = <<"End", rloc>>) => StepsOf(rloc) = n
              /\ main_pc = "done" => StepsOf(rloc) = n
              /\ \A k \in 1..Len(Log) :
                    (Log[k][1] = "Begin" /\ Log[k][2] = rloc) => Log[k][3] = n
    /\ main_pc = "done" => Log[1] = <<"BeginAll", BeginSum(Len(Log))>>

\* a run is over in which a region of two chunks sent two Step events and
\* a region without a region file, of which nothing was rendered, sent one
C25_Witness ==
    /\ main_pc = "done"
    /\ \E rloc \in DOMAIN render_regions :
          Cardinality(render_regions[rloc]) = 2 /\ StepsOf(rloc) = 2
    /\ \E rloc \in DOMAIN render_regions \ DOMAIN region_files :
          /\ StepsOf(rloc) >= 1
          /\ rloc \in DOMAIN image_files
          /\ image_files[rloc] = EmptyMap

\* the worker w moves from the step at pc from to the step at pc to
Moves(w, from, to) == wk[w].pc = from /\ wk'[w].pc = to

\* the worker w arrives at the step at pc to
Arrives(w, to) == wk[w].pc # to /\ wk'[w].pc = to

\* an End event is sent
EndSent == Len(chan') = Len(chan) + 1 /\ chan'[Len(chan')][1] = "End"

LockOrder(w) ==
    \A i, j \in 1..Len(held[w]) :
        i < j => LockRank[held[w][i]] < LockRank[held[w][j]]

\* C27: a worker takes the locks nested in the order chunks write lock,
\* lock of regions, lock of one region only; it holds no lock when it is
\* about to send an event or to take the lock of regions_remind; and with
\* a receiver that keeps receiving and no failing operation every closure
\* returns and render_all sends EndAll.
C27_LockOrderAndTermination ==
    /\ [](\A w \in Workers :
            /\ LockOrder(w)
            /\ wk[w].pc \in {"idle", "step", "remove", "end"} => held[w] = <<>>)
    /\ [](main_pc = "done" => completed = DOMAIN render_regions)
    /\ <>(main_pc = "done")

\* a worker holds the chunks write lock and the lock of a region while the
\* other worker of the pool waits for the chunks write lock
C27_Witness ==
    \E w \in Workers : \E v \in Workers \ {w} :
        /\ held[w] = <<"chunks_write", "region">>
        /\ wk[v].pc \in {"own_w", "north_w", "evict"}

=============================================================================
